---- MODULE Spec2Model ----
(***************************************************************************)
(* proctor_schedule.make_calendar: an Excel proctoring roster is turned    *)
(* into one aggregate ICS calendar and one ICS calendar per proctor.       *)
(*                                                                         *)
(* Data frames are sequences of rows; a row is a function from column      *)
(* names to cell values.  Datetimes are minutes since an epoch day 0, so   *)
(* a time-only Excel cell is (placeholder day) * 1440 + minute of day.     *)
(* Text that the program scans (Location, abbreviation codes, building     *)
(* names) is a sequence of one-character strings; other text is atomic.    *)
(***************************************************************************)
EXTENDS Integers, Sequences, FiniteSets, TLC

VARIABLES pc, raw, start_offset_mins, csv, missing, sched, warnings,
          aggregate, perProctor, remaining, cur, error

vars == <<pc, raw, start_offset_mins, csv, missing, sched, warnings,
          aggregate, perProctor, remaining, cur, error>>

----------------------------------------------------------------------------
(* Bounds of the model *)

\* rows of a raw sheet
MaxRows == 2
\* entries of the building-abbreviation table
MaxAbbr == 2

\* minutes in a day: Date and time of day are combined into one instant
MinutesPerDay == 1440
\* the command line's default --start-offset
DefaultOffset == 30

----------------------------------------------------------------------------
(* Columns and nulls *)

IndexCols == {"Date", "Start_time", "End_time", "Location", "Subject",
              "Course", "Section", "Instructor", "Students_enrolled"}

\* the sheet's "Proctor N" columns, in sheet order
ProctorCols == <<"Proctor_1", "Proctor_2">>

NullInt == -1
NullStr == "NULL"
NullText == <<"NULL">>

\* the null of a column, in the column's type
Null(col) ==
    IF col \in {"Date", "Start_time", "End_time", "Students_enrolled"}
    THEN NullInt
    ELSE IF col = "Location" THEN NullText ELSE NullStr

Max(S) == CHOOSE x \in S : \A y \in S : y <= x

\* the elements of a set of integers, ascending
SeqOfSet(S) ==
    [i \in 1..Cardinality(S) |->
        CHOOSE x \in S : Cardinality({y \in S : y < x}) = i - 1]

RECURSIVE SetToSeq(_)
\* the elements of a set in some fixed order
SetToSeq(S) ==
    IF S = {} THEN <<>>
    ELSE LET x == CHOOSE x \in S : TRUE IN <<x>> \o SetToSeq(S \ {x})

----------------------------------------------------------------------------
(* clean_proctor_schedule *)

\* Unpivot with only the first Proctor column selected
UnpivotFirstColumn(df) ==
    [r \in 1..Len(df) |->
        [col \in IndexCols \cup {"Proctor"} |->
            IF col = "Proctor" THEN df[r][ProctorCols[1]] ELSE df[r][col]]]

\* unpivot(cs.starts_with("Proctor"), index=~cs.starts_with("Proctor")) and
\* drop("variable"): one block of all rows per Proctor column, blocks in
\* column order
Unpivot(df) ==
    LET n == Len(df) IN
    [k \in 1..(n * Len(ProctorCols)) |->
        LET c == ((k - 1) \div n) + 1
            r == ((k - 1) % n) + 1
        IN [col \in IndexCols \cup {"Proctor"} |->
                IF col = "Proctor" THEN df[r][ProctorCols[c]] ELSE df[r][col]]]

\* drop_nulls("Proctor")
DropNulls(df) == SelectSeq(df, LAMBDA x : x["Proctor"] # Null("Proctor"))

\* fill_null(strategy="forward"): every null cell takes the nearest non-null
\* cell above it in the same column of this frame; none above: stays null
FillNull(df) ==
    [k \in 1..Len(df) |->
        [col \in DOMAIN df[k] |->
            LET above == {j \in 1..k : df[j][col] # Null(col)} IN
            IF above = {} THEN Null(col) ELSE df[Max(above)][col]]]

GroupKey(x) == [col \in IndexCols |-> x[col]]

\* group_by(~cs.by_name("Proctor")).agg(pl.col("Proctor").unique()); the
\* order of the groups is unspecified, here the order of first appearance
GroupBy(df) ==
    LET firsts == {k \in 1..Len(df) :
                      \A j \in 1..(k - 1) : GroupKey(df[j]) # GroupKey(df[k])}
        order == SeqOfSet(firsts)
    IN [i \in 1..Len(order) |->
           [col \in IndexCols \cup {"Proctor"} |->
               IF col = "Proctor"
               THEN {df[j]["Proctor"] :
                        j \in {j \in 1..Len(df) :
                                  GroupKey(df[j]) = GroupKey(df[order[i]])}}
               ELSE df[order[i]][col]]]

\* pl.col("Date").dt.combine(pl.col("<t> time").dt.time()): the day of Date
\* with the time of day of the cell, whatever day the cell carries
Combine(date, cell) ==
    IF date = NullInt \/ cell = NullInt THEN NullInt
    ELSE date * MinutesPerDay + (cell % MinutesPerDay)

CombineTimes(df) ==
    [i \in 1..Len(df) |->
        [df[i] EXCEPT !["Start_time"] = Combine(df[i]["Date"], @),
                      !["End_time"] = Combine(df[i]["Date"], @)]]

clean_proctor_schedule(df) ==
    CombineTimes(GroupBy(FillNull(DropNulls(Unpivot(df)))))

\* OffsetStart with the subtraction left out
OffsetStartSkipped(df, mins) == df

\* with_columns(pl.col("Start time") - pl.duration(minutes=start_offset_mins))
OffsetStart(df, mins) ==
    [i \in 1..Len(df) |->
        [df[i] EXCEPT !["Start_time"] = IF @ = NullInt THEN NullInt ELSE @ - mins]]

----------------------------------------------------------------------------
(* create_events *)

\* row["Location"].split("-")[0]
RECURSIVE SplitFirst(_)
SplitFirst(s) ==
    IF s = <<>> \/ Head(s) = "-" THEN <<>>
    ELSE <<Head(s)>> \o SplitFirst(Tail(s))

\* str.replace(old, new) for a non-empty old: the non-overlapping occurrences
\* of old, left to right; the inserted text is not scanned again
RECURSIVE Replace(_, _, _)
Replace(s, old, new) ==
    IF Len(s) < Len(old) THEN s
    ELSE IF SubSeq(s, 1, Len(old)) = old
         THEN new \o Replace(SubSeq(s, Len(old) + 1, Len(s)), old, new)
         ELSE <<Head(s)>> \o Replace(Tail(s), old, new)

\* with_columns(pl.concat_str("Building", pl.lit(": "), "Address")): the
\* result keeps the first column's name, so Building becomes name: address
ReadAbbreviations(file) ==
    [i \in 1..Len(file) |->
        [file[i] EXCEPT !.Building = @ \o <<":", " ">> \o file[i].Address]]

\* sort(pl.col("Abbreviation").str.len_chars(), descending=True): the order
\* of codes of equal length is unspecified
SortedByLength(tbl) ==
    LET n == Len(tbl)
        perms == {p \in [1..n -> 1..n] : \A i, j \in 1..n : i # j => p[i] # p[j]}
    IN {[i \in 1..n |-> tbl[p[i]]] : p \in
           {p \in perms : \A i, j \in 1..n :
               i < j => Len(tbl[p[i]].Abbreviation) >= Len(tbl[p[j]].Abbreviation)}}

\* the loop over abbreviations.iter_rows: one replace per entry, in order
RECURSIVE Substitute(_, _)
Substitute(building, abbreviations) ==
    IF abbreviations = <<>> THEN building
    ELSE Substitute(Replace(building, Head(abbreviations).Abbreviation,
                            Head(abbreviations).Building),
                    Tail(abbreviations))

\* BuildingToken without the split at "-"
BuildingTokenWhole(row) == row["Location"]

BuildingToken(row) == SplitFirst(row["Location"])

Description(row, abbreviations) ==
    IF row["Subject"] # "Make-up Exam"
    THEN [template |-> "full",
          Subject |-> row["Subject"], Course |-> row["Course"],
          Section |-> row["Section"], Instructor |-> row["Instructor"],
          Students_enrolled |-> row["Students_enrolled"],
          Proctors |-> row["Proctor"],
          Building |-> Substitute(BuildingToken(row), abbreviations)]
    ELSE [template |-> "makeup", Proctors |-> row["Proctor"]]

\* uuid4() is a fresh id per event, here the event's position
create_events(df, abbreviations) ==
    [i \in 1..Len(df) |->
        [uid |-> i,
         summary |-> "Proctoring",
         description |-> Description(df[i], abbreviations),
         location |-> df[i]["Location"],
         dtstart |-> df[i]["Start_time"],
         dtend |-> df[i]["End_time"]]]

\* with_columns(pl.Series("Event", create_events(df), pl.Object))
WithEvents(df, events) ==
    [i \in 1..Len(df) |->
        [col \in DOMAIN df[i] \cup {"Event"} |->
            IF col = "Event" THEN events[i] ELSE df[i][col]]]

----------------------------------------------------------------------------
(* check_for_double_bookings *)

ExplodeRow(row) ==
    LET ps == SetToSeq(row["Proctor"]) IN
    [k \in 1..Len(ps) |-> [row EXCEPT !["Proctor"] = ps[k]]]

\* explode("Proctor"): one row per proctor of each row
RECURSIVE Explode(_)
Explode(df) ==
    IF df = <<>> THEN <<>> ELSE ExplodeRow(Head(df)) \o Explode(Tail(df))

\* the join_where predicates; a comparison with a null is not true
JoinPredicate(l, r) ==
    /\ l["Proctor"] = r["Proctor"]
    /\ l["Start_time"] # NullInt /\ r["Start_time"] # NullInt
    /\ l["End_time"] # NullInt
    /\ l["Location"] # NullText /\ r["Location"] # NullText
    /\ l["Start_time"] < r["Start_time"]
    /\ l["End_time"] > r["Start_time"]
    /\ l["Location"] # r["Location"]

\* appointments.join_where(appointments, ...): the pairs of rows that satisfy
\* every predicate, one joined row per pair
JoinWhere(appointments) ==
    LET n == Len(appointments)
        pairs == [k \in 1..(n * n) |->
                     [left |-> appointments[((k - 1) \div n) + 1],
                      right |-> appointments[((k - 1) % n) + 1]]]
    IN SelectSeq(pairs, LAMBDA p : JoinPredicate(p.left, p.right))

\* one logger.warning per joined row
check_for_double_bookings(df) == JoinWhere(Explode(df))

----------------------------------------------------------------------------
(* main *)

\* MainOrder with the conflict check moved behind the aggregate write
MainOrderCheckLate ==
    <<"normalize", "events", "open_aggregate", "write_aggregate", "check",
      "explode", "proctors">>

\* the steps of main, in program order
MainOrder ==
    <<"normalize", "events", "check", "open_aggregate", "write_aggregate",
      "explode", "proctors">>

StepAfter(step) ==
    LET i == CHOOSE i \in 1..Len(MainOrder) : MainOrder[i] = step IN
    MainOrder[i + 1]

NoFile == [exists |-> FALSE, events |-> <<>>]

NoError == [type |-> "none", step |-> "none"]

AllProctors == {"a", "b"}

\* ProctorEvents without the grouping: every event of the schedule
ProctorEventsAll(df, proctor) == [i \in 1..Len(df) |-> df[i]["Event"].uid]

\* the proctor's rows of the exploded schedule, as group_by("Proctor") gives
ProctorEvents(df, proctor) ==
    LET rows == SelectSeq(Explode(df), LAMBDA x : x["Proctor"] = proctor) IN
    [i \in 1..Len(rows) |-> rows[i]["Event"].uid]

ProctorsOf(df) == UNION {df[i]["Proctor"] : i \in 1..Len(df)}

----------------------------------------------------------------------------
(* Inputs: raw sheets, abbreviation files *)

Row(date, start, end, loc, subject, instructor, p1, p2) ==
    [Date |-> date, Start_time |-> start, End_time |-> end, Location |-> loc,
     Subject |-> subject, Course |-> "1021", Section |-> "001",
     Instructor |-> instructor, Students_enrolled |-> 30,
     Proctor_1 |-> p1, Proctor_2 |-> p2]

SeqsUpTo(S, n) == UNION {[1..k -> S] : k \in 0..n}

\* the exam dates of the sheets, as day numbers
ExamDays == {100}

\* a time of a day; a time-only cell carries placeholder day 0 (1899-12-31)
\* or, typed otherwise, day 1
T(day, hour, minute) == day * MinutesPerDay + hour * 60 + minute

Abbr(code, name, address) ==
    [Abbreviation |-> code, Building |-> name, Address |-> address]

\* {"S": "Sx", "SC": "Sc"}, "Sc" standing for a name that contains the code S
StandardCsv == <<Abbr(<<"S">>, <<"S", "x">>, <<"1">>),
                 Abbr(<<"S", "C">>, <<"S", "c">>, <<"2">>)>>

LocX == <<"X", "-", "1">>
LocY == <<"Y", "-", "2">>

\* sheets with blank cells, repeated keys, placeholder days and instructors
NormRows ==
    {Row(date, T(0, 10, 0), T(0, 11, 0), loc, "MATH", "I1", p1, p2) :
        date \in ExamDays, loc \in {NullText, LocX, LocY}, p1 \in {NullStr, "b"}, p2 \in {NullStr, "a"}}
    \cup
    {Row(date, T(1, 10, 0), T(0, 11, 0), LocX, "MATH", "I1", p1, "a") :
        date \in ExamDays, p1 \in {NullStr, "b"}}
    \cup
    {Row(date, T(0, 10, 0), T(0, 11, 0), LocX, "MATH", "I2", p1, "a") :
        date \in ExamDays, p1 \in {NullStr, "b"}}

NormInputs ==
    {[raw |-> t, offset |-> DefaultOffset, csv |-> StandardCsv, missing |-> "none"] :
        t \in SeqsUpTo(NormRows, MaxRows)}

\* sheets of assignments at varying times and places
ConflictRows ==
    {Row(date, T(0, 10, s), T(0, 11, e), loc, "MATH", "I1", "a", NullStr) :
        date \in ExamDays, s \in {0, 30, 60}, e \in {0, 30}, loc \in {LocX, LocY}}
    \cup
    UNION {{Row(date, T(0, 10, 0), T(0, 11, 0), LocX, "MATH", "I1", "a", "b"),
            Row(date, T(0, 10, 30), T(0, 11, 30), LocY, "MATH", "I1", "a", "b")} :
              date \in ExamDays}

ConflictInputs ==
    {[raw |-> t, offset |-> o, csv |-> StandardCsv, missing |-> "none"] :
        t \in SeqsUpTo(ConflictRows, MaxRows), o \in {0, DefaultOffset}}

\* locations and abbreviation tables for the substitution
Locations ==
    {<<"S", "C", "-", "1">>, <<"S", "-", "1">>, <<"X", "-", "1">>,
     <<"X", "S", "C">>, <<"C", "S", "-", "1", "-", "2">>}

AbbrEntries ==
    {Abbr(code, name, <<"1">>) :
        code \in {<<"S">>, <<"C">>, <<"S", "C">>},
        name \in {<<"S", "x">>, <<"S", "c">>, <<"c">>}}

AbbrFiles ==
    {f \in SeqsUpTo(AbbrEntries, MaxAbbr) :
        \A i, j \in 1..Len(f) : i # j => f[i].Abbreviation # f[j].Abbreviation}

SubstInputs ==
    {[raw |-> <<Row(date, T(0, 10, 0), T(0, 11, 0), loc, subject, "I1", "a", "b")>>,
      offset |-> DefaultOffset, csv |-> f, missing |-> "none"] :
        date \in ExamDays, loc \in Locations, subject \in {"MATH", "Make-up Exam"}, f \in AbbrFiles}

\* sheets that lack a column the pipeline reads
MissingInputs ==
    {[raw |-> t, offset |-> DefaultOffset, csv |-> StandardCsv, missing |-> m] :
        t \in SeqsUpTo({Row(date, T(0, 10, 0), T(0, 11, 0), LocX,
                             "MATH", "I1", "a", NullStr) : date \in ExamDays}, MaxRows),
        m \in {"Date", "Location"}}

Inputs == NormInputs \cup ConflictInputs \cup SubstInputs \cup MissingInputs

----------------------------------------------------------------------------
(* The run of main *)

Init ==
    /\ \E in \in Inputs :
          /\ raw = in.raw
          /\ start_offset_mins = in.offset
          /\ csv = in.csv
          /\ missing = in.missing
    /\ pc = "normalize"
    /\ sched = <<>>
    /\ warnings = <<>>
    /\ aggregate = NoFile
    /\ perProctor = [p \in AllProctors |-> NoFile]
    /\ remaining = {}
    /\ cur = NullStr
    /\ error = NoError

\* an exception leaves main at the step that raised it
Raise(e) ==
    /\ pc' = "failed"
    /\ error' = [type |-> e, step |-> pc]

\* read_excel(...).pipe(clean_proctor_schedule).with_columns(Start time - offset);
\* without a Date column the combine has no column to read
Normalize ==
    /\ pc = "normalize"
    /\ IF missing = "Date"
       THEN /\ Raise("ColumnNotFoundError")
            /\ UNCHANGED sched
       ELSE /\ sched' = OffsetStart(clean_proctor_schedule(raw), start_offset_mins)
            /\ pc' = StepAfter("normalize")
            /\ UNCHANGED error
    /\ UNCHANGED <<raw, start_offset_mins, csv, missing, warnings, aggregate,
                   perProctor, remaining, cur>>

\* .pipe(lambda df: df.with_columns(pl.Series("Event", create_events(df)))):
\* row["Location"] is a KeyError without the column and None.split(...) is an
\* AttributeError on a null Location
BuildEvents ==
    /\ pc = "events"
    /\ IF sched # <<>> /\ missing = "Location"
       THEN /\ Raise("KeyError")
            /\ UNCHANGED sched
       ELSE IF \E i \in 1..Len(sched) : sched[i]["Location"] = NullText
       THEN /\ Raise("AttributeError")
            /\ UNCHANGED sched
       ELSE /\ \E abbreviations \in SortedByLength(ReadAbbreviations(csv)) :
                  sched' = WithEvents(sched, create_events(sched, abbreviations))
            /\ pc' = StepAfter("events")
            /\ UNCHANGED error
    /\ UNCHANGED <<raw, start_offset_mins, csv, missing, warnings, aggregate,
                   perProctor, remaining, cur>>

\* Check with a detected double-booking raised as an error
CheckFatal ==
    /\ pc = "check"
    /\ IF missing = "Location"
       THEN /\ Raise("ColumnNotFoundError")
            /\ UNCHANGED warnings
       ELSE IF check_for_double_bookings(sched) # <<>>
       THEN /\ Raise("ValueError")
            /\ warnings' = check_for_double_bookings(sched)
       ELSE /\ warnings' = check_for_double_bookings(sched)
            /\ pc' = StepAfter("check")
            /\ UNCHANGED error
    /\ UNCHANGED <<raw, start_offset_mins, csv, missing, sched, aggregate,
                   perProctor, remaining, cur>>

\* schedule_period and check_for_double_bookings(sched); the join reads the
\* Location column
Check ==
    /\ pc = "check"
    /\ IF missing = "Location"
       THEN /\ Raise("ColumnNotFoundError")
            /\ UNCHANGED warnings
       ELSE /\ warnings' = check_for_double_bookings(sched)
            /\ pc' = StepAfter("check")
            /\ UNCHANGED error
    /\ UNCHANGED <<raw, start_offset_mins, csv, missing, sched, aggregate,
                   perProctor, remaining, cur>>

\* (INTERIM_DATA_DIR / "<period>_proctoring.ics").open("wb")
OpenAggregate ==
    /\ pc = "open_aggregate"
    /\ aggregate' = [exists |-> TRUE, events |-> <<>>]
    /\ pc' = StepAfter("open_aggregate")
    /\ UNCHANGED <<raw, start_offset_mins, csv, missing, sched, warnings,
                   perProctor, remaining, cur, error>>

\* f.write(cal.to_ical()) with every event of sched["Event"] in cal
WriteAggregate ==
    /\ pc = "write_aggregate"
    /\ aggregate' = [exists |-> TRUE,
                     events |-> [i \in 1..Len(sched) |-> sched[i]["Event"].uid]]
    /\ pc' = StepAfter("write_aggregate")
    /\ UNCHANGED <<raw, start_offset_mins, csv, missing, sched, warnings,
                   perProctor, remaining, cur, error>>

\* sched.explode("Proctor").group_by("Proctor"): the groups still to write
ExplodeByProctor ==
    /\ pc = "explode"
    /\ remaining' = ProctorsOf(sched)
    /\ pc' = StepAfter("explode")
    /\ UNCHANGED <<raw, start_offset_mins, csv, missing, sched, warnings,
                   aggregate, perProctor, cur, error>>

\* the next group of the loop, in any order: open its file
OpenProctor(p) ==
    /\ pc = "proctors"
    /\ cur = NullStr
    /\ p \in remaining
    /\ cur' = p
    /\ perProctor' = [perProctor EXCEPT ![p] = [exists |-> TRUE, events |-> <<>>]]
    /\ UNCHANGED <<pc, raw, start_offset_mins, csv, missing, sched, warnings,
                   aggregate, remaining, error>>

\* f.write(cal.to_ical()) with the group's events in cal
WriteProctor ==
    /\ pc = "proctors"
    /\ cur # NullStr
    /\ perProctor' = [perProctor EXCEPT
                         ![cur] = [exists |-> TRUE,
                                   events |-> ProctorEvents(sched, cur)]]
    /\ remaining' = remaining \ {cur}
    /\ cur' = NullStr
    /\ UNCHANGED <<pc, raw, start_offset_mins, csv, missing, sched, warnings,
                   aggregate, error>>

\* logger.success(...)
Success ==
    /\ pc = "proctors"
    /\ cur = NullStr
    /\ remaining = {}
    /\ pc' = "done"
    /\ UNCHANGED <<raw, start_offset_mins, csv, missing, sched, warnings,
                   aggregate, perProctor, remaining, cur, error>>

\* the file system refuses: the sheet or the abbreviation file cannot be
\* read, a calendar file cannot be opened or written
OSError ==
    /\ \/ pc \in {"normalize", "events", "open_aggregate", "write_aggregate"}
       \/ pc = "proctors" /\ (cur # NullStr \/ remaining # {})
    /\ Raise("OSError")
    /\ UNCHANGED <<raw, start_offset_mins, csv, missing, sched, warnings,
                   aggregate, perProctor, remaining, cur>>

Next ==
    \/ Normalize
    \/ BuildEvents
    \/ Check
    \/ OpenAggregate
    \/ WriteAggregate
    \/ ExplodeByProctor
    \/ \E p \in AllProctors : OpenProctor(p)
    \/ WriteProctor
    \/ Success
    \/ OSError

Spec == Init /\ [][Next]_vars

----------------------------------------------------------------------------
(* Vocabulary of the properties *)

\* the step main is at, or the step at which it failed
At == IF pc = "failed" THEN error.step ELSE pc

\* clean_proctor_schedule and the offset have just produced sched
Normalized == At = "events"
\* create_events has just added the Event column to sched
EventsBuilt == At = "check"
\* check_for_double_bookings has just logged its warnings
Reported == pc = "open_aggregate"
\* the conflict pass is over
Checked == At \notin {"normalize", "events", "check"}

NoArtifact == ~aggregate.exists /\ \A p \in AllProctors : ~perProctor[p].exists

Contains(s, sub) ==
    \E k \in 0..(Len(s) - Len(sub)) : SubSeq(s, k + 1, k + Len(sub)) = sub

Count(seq, x) == Cardinality({k \in 1..Len(seq) : seq[k] = x})

\* the non-null Proctor cells of the sheet, as <<row, proctor column>>
Cells ==
    {x \in (1..Len(raw)) \X (1..Len(ProctorCols)) :
        raw[x[1]][ProctorCols[x[2]]] # NullStr}

ProctorAt(x) == raw[x[1]][ProctorCols[x[2]]]

\* x is y or comes before y, column by column and row by row within a column
BlockOrder(x, y) == x[2] < y[2] \/ (x[2] = y[2] /\ x[1] <= y[1])

\* the cell of column col carried to Proctor cell x from the nearest Proctor
\* cell at or before it, column by column, that has the column filled
FilledByBlock(x, col) ==
    LET src == {y \in Cells : BlockOrder(y, x) /\ raw[y[1]][col] # Null(col)} IN
    IF src = {} THEN Null(col)
    ELSE raw[(CHOOSE y \in src : \A z \in src : BlockOrder(z, y))[1]][col]

\* the cell of column col carried to row r from the nearest row of the sheet
\* at or above it that has the column filled
FilledBySheet(r, col) ==
    LET src == {q \in 1..r : raw[q][col] # Null(col)} IN
    IF src = {} THEN Null(col) ELSE raw[Max(src)][col]

\* the value a NormalizedEvent holds in column col for the filled cells vals
EventValue(vals, col) ==
    IF col = "Start_time"
    THEN IF Combine(vals["Date"], vals[col]) = NullInt THEN NullInt
         ELSE Combine(vals["Date"], vals[col]) - start_offset_mins
    ELSE IF col = "End_time" THEN Combine(vals["Date"], vals[col])
    ELSE vals[col]

EventKeyCols == {"Date", "Start_time", "End_time", "Location", "Subject",
                 "Course", "Section"}

\* the key of the NormalizedEvent that Proctor cell x belongs to
CellKey(x) ==
    LET vals == [col \in IndexCols |-> FilledByBlock(x, col)] IN
    [col \in EventKeyCols |-> EventValue(vals, col)]

EventKey(row) == [col \in EventKeyCols |-> row[col]]

\* the sheet's assignments: each non-null Proctor value with its row's key
CellPairs == {<<ProctorAt(x), CellKey(x)>> : x \in Cells}

\* the NormalizedEvents that hold proctor q[1] under key q[2]
EventsOfPair(q) ==
    {i \in 1..Len(sched) : q[1] \in sched[i]["Proctor"] /\ EventKey(sched[i]) = q[2]}

\* every proctor of every NormalizedEvent is a Proctor cell of the sheet
\* with the event's key
FromCells(pairs) ==
    \A i \in 1..Len(sched) : \A p \in sched[i]["Proctor"] :
        <<p, EventKey(sched[i])>> \in pairs

----------------------------------------------------------------------------
(* C1: normalization completeness *)

\* C1 as stated: every non-null Proctor value of every raw row is in the
\* proctor set of exactly one NormalizedEvent with the row's (Date, Start, End,
\* Location, Subject, Course, Section) key, and rows without proctors
\* contribute nothing.
C1_ExactlyOneEvent ==
    Normalized =>
        LET pairs == CellPairs IN
        /\ \A q \in pairs : Cardinality(EventsOfPair(q)) = 1
        /\ FromCells(pairs)

\* C1 amended: every non-null Proctor value of every raw row is in the proctor
\* set of at least one NormalizedEvent with the row's key, and every proctor of
\* a NormalizedEvent comes from such a cell, so a row without proctors
\* contributes nothing.
C1_AtLeastOneEvent ==
    Normalized =>
        LET pairs == CellPairs IN
        /\ \A q \in pairs : EventsOfPair(q) # {}
        /\ FromCells(pairs)

\* a sheet with a row without proctors and a row with a proctor in each
\* Proctor column, normalized into one event of two proctors
C1_Witness ==
    /\ Normalized
    /\ Len(raw) = 2
    /\ \E x \in Cells : x[2] = 2
    /\ \E r \in 1..Len(raw) : \A c \in 1..Len(ProctorCols) : <<r, c>> \notin Cells
    /\ Len(sched) = 1
    /\ Cardinality(sched[1]["Proctor"]) = 2

----------------------------------------------------------------------------
(* C2: the rule of check_for_double_bookings *)

\* the rule on two appointments, start being the offset-adjusted start
Rule(a, b) ==
    /\ a["Proctor"] = b["Proctor"]
    /\ a["Start_time"] - start_offset_mins < b["Start_time"] - start_offset_mins
    /\ a["End_time"] > b["Start_time"] - start_offset_mins
    /\ a["Location"] # b["Location"]

\* C2: an ordered pair of Assignments of one proctor is reported iff A.start <
\* B.start, A.end > B.start and the locations differ, start being the
\* offset-adjusted start; a reported pair is reported once, never in the
\* swapped order, and never for one location.
C2_ReportedIffRule ==
    Reported =>
        LET appts == Explode(sched)
            \* the appointments before the start offset was applied
            base == Explode(clean_proctor_schedule(raw))
        IN
        /\ Len(appts) = Len(base)
        /\ \A i, j \in 1..Len(appts) :
              Count(warnings, [left |-> appts[i], right |-> appts[j]])
                  = IF Rule(base[i], base[j]) THEN 1 ELSE 0
        /\ \A k \in 1..Len(warnings) :
              /\ warnings[k].left["Location"] # warnings[k].right["Location"]
              /\ Count(warnings, [left |-> warnings[k].right,
                                  right |-> warnings[k].left]) = 0
              /\ \E i, j \in 1..Len(appts) :
                    warnings[k] = [left |-> appts[i], right |-> appts[j]]

\* one proctor on X 10:00-11:00 and on Y 10:30-11:30: exactly one warning
C2_Witness ==
    /\ Reported
    /\ Len(warnings) = 1
    /\ \E i, j \in 1..Len(sched) :
          /\ "a" \in sched[i]["Proctor"] /\ "a" \in sched[j]["Proctor"]
          /\ sched[i]["Location"] = LocX /\ sched[j]["Location"] = LocY
          /\ sched[i]["Date"] = sched[j]["Date"]
          /\ sched[i]["Start_time"] = T(sched[i]["Date"], 10, 0) - start_offset_mins
          /\ sched[i]["End_time"] = T(sched[i]["Date"], 11, 0)
          /\ sched[j]["Start_time"] = T(sched[j]["Date"], 10, 30) - start_offset_mins
          /\ sched[j]["End_time"] = T(sched[j]["Date"], 11, 30)

----------------------------------------------------------------------------
(* C3: every double-booking is surfaced *)

\* C3 as stated: two Assignments of one proctor in different locations whose
\* intervals overlap are reported in at least one of the two orders.
C3_EveryOverlapReported ==
    Reported =>
        LET appts == Explode(sched) IN
        \A i, j \in 1..Len(appts) :
            ( /\ appts[i]["Proctor"] = appts[j]["Proctor"]
              /\ appts[i]["Location"] # appts[j]["Location"]
              /\ appts[i]["Start_time"] < appts[j]["End_time"]
              /\ appts[j]["Start_time"] < appts[i]["End_time"] )
            => \/ Count(warnings, [left |-> appts[i], right |-> appts[j]]) > 0
               \/ Count(warnings, [left |-> appts[j], right |-> appts[i]]) > 0

----------------------------------------------------------------------------
(* C4: longest match of the abbreviation substitution *)

\* C4 as stated: when the building text holds a code that has a shorter code
\* of the table as a substring, the substituted text holds that code's full
\* name as the table gives it.
C4_LongestMatchWins ==
    EventsBuilt =>
        \A i \in 1..Len(sched) :
            sched[i]["Event"].description.template = "full" =>
                \A c, d \in 1..Len(csv) :
                    ( /\ Contains(SplitFirst(sched[i]["Location"]), csv[c].Abbreviation)
                      /\ Len(csv[d].Abbreviation) < Len(csv[c].Abbreviation)
                      /\ Contains(csv[c].Abbreviation, csv[d].Abbreviation) )
                    => Contains(sched[i]["Event"].description.Building,
                                csv[c].Building)

----------------------------------------------------------------------------
(* C5: contents of the artifacts of a completed run *)

Uid(i) == sched[i]["Event"].uid

RECURSIVE Sum(_, _)
Sum(f, S) ==
    IF S = {} THEN 0
    ELSE LET x == CHOOSE x \in S : TRUE IN f[x] + Sum(f, S \ {x})

\* C5: after a completed run the aggregate calendar holds one event per
\* NormalizedEvent, each proctor's calendar holds exactly the events of the
\* NormalizedEvents whose proctor set holds the proctor, and the per-proctor
\* calendars hold as many events in total as the proctor sets have members.
C5_ArtifactContents ==
    pc = "done" =>
        /\ \A i, j \in 1..Len(sched) : i # j => Uid(i) # Uid(j)
        /\ aggregate.exists
        /\ Len(aggregate.events) = Len(sched)
        /\ \A i \in 1..Len(sched) : Count(aggregate.events, Uid(i)) = 1
        /\ \A p \in AllProctors :
              /\ perProctor[p].exists <=> \E i \in 1..Len(sched) : p \in sched[i]["Proctor"]
              /\ Len(perProctor[p].events)
                    = Cardinality({i \in 1..Len(sched) : p \in sched[i]["Proctor"]})
              /\ \A i \in 1..Len(sched) :
                    Count(perProctor[p].events, Uid(i))
                        = IF p \in sched[i]["Proctor"] THEN 1 ELSE 0
        /\ Sum([p \in AllProctors |-> Len(perProctor[p].events)], AllProctors)
              = Sum([i \in 1..Len(sched) |-> Cardinality(sched[i]["Proctor"])],
                    1..Len(sched))

\* a completed run over two events, one with two proctors and one with one
C5_Witness ==
    /\ pc = "done"
    /\ Len(sched) = 2
    /\ \E i, j \in 1..Len(sched) :
          /\ Cardinality(sched[i]["Proctor"]) = 2
          /\ Cardinality(sched[j]["Proctor"]) = 1
    /\ Len(perProctor["a"].events) + Len(perProctor["b"].events) = 3

----------------------------------------------------------------------------
(* C6: all-or-nothing output *)

AllWritten ==
    /\ aggregate.exists
    /\ Len(aggregate.events) = Len(sched)
    /\ \A p \in ProctorsOf(sched) :
          perProctor[p].exists /\ perProctor[p].events # <<>>

\* C6 as stated: a run completes with every artifact written, or fails with
\* no artifact written at all, whatever step fails.
C6_AllOrNothing ==
    /\ pc = "done" => AllWritten
    /\ pc = "failed" => NoArtifact

\* C6 amended: a run that completes has written every artifact; a run that
\* fails in normalization, event building or the conflict check, and so any
\* run that fails on a malformed or missing column, has written no artifact.
C6_NothingUnlessWriting ==
    /\ pc = "done" => AllWritten
    /\ (pc = "failed" /\ error.step \in {"normalize", "events", "check"}) => NoArtifact
    /\ (pc = "failed" /\ error.type # "OSError") => NoArtifact

\* a run that failed on a missing column at the conflict check
C6_Witness ==
    /\ pc = "failed"
    /\ error = [type |-> "ColumnNotFoundError", step |-> "check"]
    /\ missing = "Location"
    /\ NoArtifact

----------------------------------------------------------------------------
(* C7: double-bookings are detected before output and are never fatal *)

\* C7: no artifact exists until the conflict pass has emitted every warning,
\* no warning is emitted afterwards, and a conflict pass over a sheet with
\* its columns goes on to the aggregate write whatever it detected; a run
\* that reaches the success step has written every artifact.
C7_CheckBeforeOutputNeverFatal ==
    /\ [](~NoArtifact => (Checked /\ warnings = check_for_double_bookings(sched)))
    /\ [](At \in {"normalize", "events", "check"} => NoArtifact)
    /\ [][(pc = "check" /\ missing = "none")
              => (pc' = "open_aggregate" /\ NoArtifact')]_vars
    /\ [][pc # "check" => warnings' = warnings]_vars
    /\ [](pc = "done" => AllWritten)

\* a completed run that detected two double-bookings
C7_Witness ==
    /\ pc = "done"
    /\ Len(warnings) >= 2
    /\ AllWritten

----------------------------------------------------------------------------
(* C8: key uniqueness of the NormalizedEvents *)

\* C8 as stated: no two NormalizedEvents have the same (Date, Start time, End
\* time, Location, Subject, Course, Section, Instructor, Students-enrolled).
C8_KeysUnique ==
    Normalized =>
        \A i, j \in 1..Len(sched) :
            i # j => GroupKey(sched[i]) # GroupKey(sched[j])

----------------------------------------------------------------------------
(* C9: unknown building codes pass through *)

Codes == {csv[c].Abbreviation : c \in 1..Len(csv)}

\* the part of a text before its first "-"
IsToken(t, s) ==
    /\ Len(t) <= Len(s)
    /\ t = SubSeq(s, 1, Len(t))
    /\ \A k \in 1..Len(t) : t[k] # "-"
    /\ Len(t) = Len(s) \/ s[Len(t) + 1] = "-"

\* an exception of create_events that the rows or the table caused
EventsRaised == pc = "failed" /\ error.step = "events" /\ error.type # "OSError"

----------------------------------------------------------------------------
(* C10: forward-fill in the sheet's row order *)

\* C10 as stated: a null cell of a non-Proctor column in a row with a proctor
\* is replaced by the cell of the nearest row above it in the sheet that has
\* the column filled, whichever Proctor column holds the proctor and whether
\* or not that row has a proctor.
C10_FillInSheetOrder ==
    Normalized =>
        \A x \in Cells :
            LET vals == [col \in IndexCols |-> FilledBySheet(x[1], col)] IN
            \E i \in 1..Len(sched) :
                /\ ProctorAt(x) \in sched[i]["Proctor"]
                /\ \A col \in IndexCols :
                      vals[col] # Null(col) => sched[i][col] = EventValue(vals, col)

====
